---- MODULE Spec2Model ----
(***************************************************************************)
(* Emoji-Wrapped: the aggregator script (combine_imessages.py) and the     *)
(* analyzer script (emoji_wrapped.py), each modelled as a sequential       *)
(* state machine over its inputs.                                          *)
(***************************************************************************)
EXTENDS Integers, Sequences, FiniteSets

VARIABLES
    \* ---- combine_imessages.py ----
    files,            \* the *.csv source files under the working directory, in discovery order
    artifact,         \* <cwd>/combined_messages.csv: whether it exists, and its cells
    pcC,              \* position of combine_csv_files
    listing,          \* what base_path.rglob('*.csv') yields in the current run
    idx,              \* loop position in the listing
    all_dfs,          \* list of dataframes accumulated so far
    processed_files,  \* counter of successfully processed files
    total_files,      \* counter of discovered files
    combined_df,      \* result of pd.concat in the current run
    wrote,            \* whether the current run has called to_csv
    runs,             \* completed invocations of the script
    \* ---- emoji_wrapped.py ----
    csv,              \* the file at csv_path: its defect (if any) and its rows
    pcA,              \* position of main
    df,               \* self.df: whether it is set, and its rows
    df_emojis,        \* column self.df['emojis']
    df_emoji_count,   \* column self.df['emoji_count']
    emoji_data,       \* self.emoji_data: whether it is set, and its rows
    stats,            \* what basic_stats computed
    top_n,            \* what plot_top_emojis got from top_emojis
    time_patterns,    \* the three series plotted by plot_time_patterns
    daily_counts,     \* the series plotted by plot_usage_over_time
    shown,            \* figures shown so far (fig.show())
    out,              \* messages printed so far
    error             \* the exception main re-raised, or NoError

varsC == <<files, artifact, pcC, listing, idx, all_dfs, processed_files,
           total_files, combined_df, wrote, runs>>

varsA == <<csv, pcA, df, df_emojis, df_emoji_count, emoji_data, stats, top_n,
           time_patterns, daily_counts, shown, out, error>>

vars == <<varsC, varsA>>

\* ------------------------------------------------------------------ bounds
MaxFiles == 2
MaxRows == 2
MaxRuns == 2
MaxMessages == 2
MaxTopN == 2

\* --------------------------------------------------------------- helpers
SeqsUpTo(S, n) == UNION {[1..k -> S] : k \in 0..n}

RECURSIVE SumSeq(_)
SumSeq(s) == IF s = <<>> THEN 0 ELSE Head(s) + SumSeq(Tail(s))

RECURSIVE Flatten(_)
Flatten(ss) == IF ss = <<>> THEN <<>> ELSE Head(ss) \o Flatten(Tail(ss))

InsertAt(s, pos, e) == SubSeq(s, 1, pos) \o <<e>> \o SubSeq(s, pos + 1, Len(s))

\* =========================================================================
\* combine_imessages.py
\* =========================================================================
\* combined_messages.csv before any run wrote it.
NoFile == [exists |-> FALSE, cells |-> <<>>]
RootName == "root"
DirNames == {RootName, "a", "b"}

\* A source file: the name of its immediate parent directory, whether
\* pd.read_csv accepts it, its number of data rows, and whether it already
\* carries a conversation_id column.
SourceFiles ==
    [parent : DirNames, parses : {TRUE}, nrows : 0..MaxRows, hasCid : BOOLEAN]
    \cup [parent : DirNames, parses : {FALSE}, nrows : {0}, hasCid : {FALSE}]

\* Entries of a directory listing: source file i of `files`, or the artifact
\* of an earlier run (id 0), which lies in the working directory itself and
\* parses, having been written by to_csv. nrows is the number of data rows the
\* file holds when it is discovered.
SourceEntry(i) ==
    [id |-> i, parent |-> files[i].parent, parses |-> files[i].parses,
     nrows |-> files[i].nrows]
ArtifactEntry ==
    [id |-> 0, parent |-> RootName, parses |-> TRUE, nrows |-> Len(artifact.cells)]

\* A listing that leaves combined_messages.csv out, as if the output name did
\* not match the input pattern.
Listings_SourcesOnly == {[i \in 1..Len(files) |-> SourceEntry(i)]}

\* base_path.rglob('*.csv'): every source file, plus combined_messages.csv
\* when an earlier run left it; its place in the traversal is not fixed.
Listings ==
    LET src == [i \in 1..Len(files) |-> SourceEntry(i)]
    IN  IF ~artifact.exists THEN {src}
        ELSE {InsertAt(src, p, ArtifactEntry) : p \in 0..Len(src)}

\* pd.read_csv(csv_file): the rows of the file, each remembering the file it
\* was read from (src) and the conversation_id cell it holds in that file.
\* A file pandas cannot parse raises instead (ok = FALSE).
read_csv(e) ==
    IF ~e.parses THEN [ok |-> FALSE, rows |-> <<>>]
    ELSE IF e.id = 0
         THEN [ok |-> TRUE,
               rows |-> [k \in 1..Len(artifact.cells) |->
                           [src |-> 0, cid |-> artifact.cells[k]]]]
         ELSE [ok |-> TRUE,
               rows |-> [k \in 1..files[e.id].nrows |->
                           [src |-> e.id,
                            cid |-> IF files[e.id].hasCid THEN "old" ELSE "absent"]]]

\* An assignment that fills the column only where the file has none.
SetConversationId_KeepExisting(frame, e) ==
    [k \in 1..Len(frame) |->
        IF frame[k].cid = "absent" THEN [frame[k] EXCEPT !.cid = e.parent] ELSE frame[k]]

\* df['conversation_id'] = csv_file.parent.name
SetConversationId(frame, e) == [k \in 1..Len(frame) |-> [frame[k] EXCEPT !.cid = e.parent]]

\* pd.concat(all_dfs, ignore_index=True)
Concat(dfs) == Flatten(dfs)

\* combined_df.to_csv(output_path, index=False): the file keeps the cells.
to_csv(frame) == [exists |-> TRUE, cells |-> [k \in 1..Len(frame) |-> frame[k].cid]]

\* The aggregator is not running (an execution of the analyzer).
OffC ==
    /\ files = <<>>
    /\ artifact = NoFile
    /\ pcC = "off"
    /\ listing = <<>>
    /\ idx = 1
    /\ all_dfs = <<>>
    /\ processed_files = 0
    /\ total_files = 0
    /\ combined_df = <<>>
    /\ wrote = FALSE
    /\ runs = 0

InitAggregator ==
    /\ files \in SeqsUpTo(SourceFiles, MaxFiles)
    /\ artifact = NoFile
    /\ pcC = "idle"
    /\ listing = <<>>
    /\ idx = 1
    /\ all_dfs = <<>>
    /\ processed_files = 0
    /\ total_files = 0
    /\ combined_df = <<>>
    /\ wrote = FALSE
    /\ runs = 0

\* Lines 7-18: a fresh invocation; the first rglob pass counts the files.
StartRun ==
    /\ pcC \in {"idle", "done"}
    /\ runs < MaxRuns
    /\ \E l \in Listings :
          /\ listing' = l
          /\ total_files' = Len(l)
    /\ all_dfs' = <<>>
    /\ processed_files' = 0
    /\ idx' = 1
    /\ combined_df' = <<>>
    /\ wrote' = FALSE
    /\ pcC' = "loop"
    /\ UNCHANGED <<files, artifact, runs>>
    /\ UNCHANGED varsA

\* One iteration whose failure path still appends the (empty) table, as an
\* append placed outside the try block would.
ProcessFile_AppendAlways ==
    /\ pcC = "loop"
    /\ idx <= Len(listing)
    /\ LET e == listing[idx]
           r == read_csv(e)
       IN  /\ all_dfs' = Append(all_dfs, SetConversationId(r.rows, e))
           /\ processed_files' = IF r.ok THEN processed_files + 1 ELSE processed_files
    /\ idx' = idx + 1
    /\ UNCHANGED <<files, artifact, pcC, listing, total_files, combined_df, wrote, runs>>
    /\ UNCHANGED varsA

\* Lines 21-38: one iteration of the processing loop.
ProcessFile ==
    /\ pcC = "loop"
    /\ idx <= Len(listing)
    /\ LET e == listing[idx]
           r == read_csv(e)
       IN  IF ~r.ok
           THEN UNCHANGED <<all_dfs, processed_files>>
           ELSE /\ all_dfs' = Append(all_dfs, SetConversationId(r.rows, e))
                /\ processed_files' = processed_files + 1
    /\ idx' = idx + 1
    /\ UNCHANGED <<files, artifact, pcC, listing, total_files, combined_df, wrote, runs>>
    /\ UNCHANGED varsA

\* Lines 41-50: concatenate and save, or report that nothing was processed.
Finish ==
    /\ pcC = "loop"
    /\ idx > Len(listing)
    /\ IF all_dfs # <<>>
       THEN /\ combined_df' = Concat(all_dfs)
            /\ artifact' = to_csv(combined_df')
            /\ wrote' = TRUE
       ELSE UNCHANGED <<combined_df, artifact, wrote>>
    /\ pcC' = "done"
    /\ runs' = runs + 1
    /\ UNCHANGED <<files, listing, idx, all_dfs, processed_files, total_files>>
    /\ UNCHANGED varsA

NextC == StartRun \/ ProcessFile \/ Finish

\* =========================================================================
\* emoji_wrapped.py
\* =========================================================================
NoError == "NoError"
date_column == "Message Date"
text_column == "Text"
type_column == "Type"
TargetYear == 2024
DefaultTopN == 25

\* ---- timestamps (pandas Timestamp / NaT) ----
NaT == [nat |-> TRUE, y |-> 0, mo |-> 0, d |-> 0, h |-> 0]
Ts(y, mo, d, h) == [nat |-> FALSE, y |-> y, mo |-> mo, d |-> d, h |-> h]

IsLeap(y) == (y % 4 = 0 /\ y % 100 # 0) \/ y % 400 = 0
DaysInMonth(y, m) ==
    IF m = 2 THEN (IF IsLeap(y) THEN 29 ELSE 28)
    ELSE IF m \in {4, 6, 9, 11} THEN 30 ELSE 31
RECURSIVE DaysBeforeMonth(_, _)
DaysBeforeMonth(y, m) ==
    IF m = 1 THEN 0 ELSE DaysBeforeMonth(y, m - 1) + DaysInMonth(y, m - 1)
RECURSIVE DaysBeforeYear(_)
\* Days from 2023-01-01 (a Sunday) to January 1st of year y.
DaysBeforeYear(y) ==
    IF y <= 2023 THEN 0
    ELSE DaysBeforeYear(y - 1) + (IF IsLeap(y - 1) THEN 366 ELSE 365)
Ordinal(t) == DaysBeforeYear(t.y) + DaysBeforeMonth(t.y, t.mo) + (t.d - 1)

WeekDays == <<"Monday", "Tuesday", "Wednesday", "Thursday", "Friday",
              "Saturday", "Sunday">>
MonthNames == <<"January", "February", "March", "April", "May", "June", "July",
                "August", "September", "October", "November", "December">>

\* Series.dt.year: NaN for NaT, which equals no year.
year(t) == IF t.nat THEN -1 ELSE t.y
\* Timestamp.hour, .day_name(), .month_name()
hour(t) == t.h
day_name(t) == WeekDays[((Ordinal(t) + 6) % 7) + 1]
month_name(t) == MonthNames[t.mo]
\* Order of timestamps, as groupby sorts its keys.
TsKey(t) == Ordinal(t) * 24 + t.h

\* ---- the input file ----
\* Cells of the Type column: the two direction labels, or a missing value.
TypeNA == "<NA>"
\* Cells of the Text column: a string (a sequence of characters) or NaN.
NaN == [isStr |-> FALSE, chars |-> <<>>]
Str(cs) == [isStr |-> TRUE, chars |-> cs]

\* Characters: "A" and "B" are keys of emoji.EMOJI_DATA, "h" is not.
EMOJI_DATA == {"A", "B"}

Timestamps2024 == {Ts(2024, 1, 1, 10), Ts(2024, 1, 1, 15), Ts(2024, 2, 6, 10)}
TimestampsOther == {NaT, Ts(2023, 12, 31, 23), Ts(2025, 1, 1, 0)}
Texts == {NaN, Str(<<"h">>), Str(<<"A", "A">>), Str(<<"B", "h", "A">>)}

InputRows ==
    [ts : Timestamps2024, type : {"Outgoing"}, text : Texts]
    \cup [ts : TimestampsOther, type : {"Outgoing"}, text : {Str(<<"A">>)}]
    \cup [ts : {Ts(2024, 1, 1, 10)}, type : {"Incoming", TypeNA}, text : {Str(<<"A">>)}]
    \cup [ts : {Ts(2023, 12, 31, 23)}, type : {"Incoming"}, text : {Str(<<"A">>)}]

\* What can be wrong with the file at csv_path.
Defects == {"none", "unreadable", "no_date_column", "no_text_column",
            "no_date_no_text", "no_type_column", "dates_not_parsed"}

\* header_df.columns
Columns(c) ==
    {date_column, text_column, type_column}
    \ ( (IF c.defect \in {"no_date_column", "no_date_no_text"} THEN {date_column} ELSE {})
        \cup (IF c.defect \in {"no_text_column", "no_date_no_text"} THEN {text_column} ELSE {})
        \cup (IF c.defect = "no_type_column" THEN {type_column} ELSE {}) )

\* ---- load_data ----
\* A filter on the year alone.
RowMask_YearOnly(r) == year(r.ts) = TargetYear

\* Lines 41-44: the boolean mask of the filter, row by row.
RowMask(r) == year(r.ts) = TargetYear /\ r.type = "Outgoing"

\* Boolean indexing: the rows whose mask is true, in order.
RECURSIVE Filter(_)
Filter(rows) ==
    IF rows = <<>> THEN <<>>
    ELSE IF RowMask(Head(rows)) THEN <<Head(rows)>> \o Filter(Tail(rows))
         ELSE Filter(Tail(rows))

Unset == [set |-> FALSE, rows |-> <<>>]
Table(rows) == [set |-> TRUE, rows |-> rows]

\* Outcome of load_data (lines 20-50): the exception it re-raises (or NoError),
\* the value it leaves in self.df, and what it printed.
load_data_result(c) ==
    IF c.defect = "unreadable"
    THEN [err |-> "OSError", df |-> Unset,
          out |-> <<"Error loading CSV file">>]
    ELSE IF date_column \notin Columns(c) \/ text_column \notin Columns(c)
    THEN [err |-> "ValueError", df |-> Unset,
          out |-> <<"Available columns", "Error loading CSV file">>]
    ELSE IF c.defect = "dates_not_parsed"
    THEN [err |-> "AttributeError", df |-> Table(c.rows),
          out |-> <<"Reading CSV file", "Error loading CSV file">>]
    ELSE IF type_column \notin Columns(c)
    THEN [err |-> "KeyError", df |-> Table(c.rows),
          out |-> <<"Reading CSV file", "Error loading CSV file">>]
    ELSE [err |-> NoError, df |-> Table(Filter(c.rows)),
          out |-> <<"Reading CSV file", "Found outgoing messages">>]

\* ---- extract_emojis / process_emoji_data ----
RECURSIVE EmojiChars(_)
EmojiChars(cs) ==
    IF cs = <<>> THEN <<>>
    ELSE IF Head(cs) \in EMOJI_DATA THEN <<Head(cs)>> \o EmojiChars(Tail(cs))
         ELSE EmojiChars(Tail(cs))

\* Lines 52-56.
extract_emojis(text) == IF ~text.isStr THEN <<>> ELSE EmojiChars(text.chars)

\* Lines 70-76: the record appended for one emoji of one row.
EmojiRecord(row, emoji_char) ==
    [message_date |-> row.ts,
     emoji |-> emoji_char,
     hour |-> hour(row.ts),
     day_of_week |-> day_name(row.ts),
     month |-> month_name(row.ts)]

\* Lines 67-76: the nested loop over rows and over each row's emojis.
RECURSIVE Expand(_, _)
Expand(rows, emojis) ==
    IF rows = <<>> THEN <<>>
    ELSE [k \in 1..Len(Head(emojis)) |-> EmojiRecord(Head(rows), Head(emojis)[k])]
         \o Expand(Tail(rows), Tail(emojis))

\* ---- basic_stats ----
\* Lines 82-84.
total_emojis == SumSeq(df_emoji_count)
unique_emojis == Cardinality(UNION {{e[k] : k \in 1..Len(e)} : e \in {df_emojis[i] : i \in 1..Len(df_emojis)}})
messages_with_emojis == Cardinality({i \in 1..Len(df_emoji_count) : df_emoji_count[i] > 0})

\* ---- top_emojis ----
\* Counter(all_emojis): counts, kept in order of first occurrence.
RECURSIVE Counter(_)
Counter(es) ==
    IF es = <<>> THEN <<>>
    ELSE LET c == Counter(SubSeq(es, 1, Len(es) - 1))
             e == es[Len(es)]
         IN  IF \E k \in 1..Len(c) : c[k][1] = e
             THEN [k \in 1..Len(c) |-> IF c[k][1] = e THEN <<e, c[k][2] + 1>> ELSE c[k]]
             ELSE Append(c, <<e, 1>>)

\* A sort that puts the later of two equal counts first.
RECURSIVE SortByCountDesc_TiesReversed(_)
SortByCountDesc_TiesReversed(items) ==
    IF items = <<>> THEN <<>>
    ELSE LET rest == SortByCountDesc_TiesReversed(SubSeq(items, 1, Len(items) - 1))
             x == items[Len(items)]
             before == {k \in 1..Len(rest) : rest[k][2] > x[2]}
             p == Cardinality(before)
         IN  SubSeq(rest, 1, p) \o <<x>> \o SubSeq(rest, p + 1, Len(rest))

\* most_common's ordering: sorted(items, key=count, reverse=True), which is
\* stable, so equal counts keep the order they have in the Counter.
RECURSIVE SortByCountDesc(_)
SortByCountDesc(items) ==
    IF items = <<>> THEN <<>>
    ELSE LET rest == SortByCountDesc(SubSeq(items, 1, Len(items) - 1))
             x == items[Len(items)]
             before == {k \in 1..Len(rest) : rest[k][2] >= x[2]}
             p == Cardinality(before)
         IN  SubSeq(rest, 1, p) \o <<x>> \o SubSeq(rest, p + 1, Len(rest))

Min(a, b) == IF a <= b THEN a ELSE b

\* Line 94.
all_emojis == Flatten(df_emojis)

\* Lines 92-95: Counter(all_emojis).most_common(n).
top_emojis(n) ==
    LET sorted == SortByCountDesc(Counter(all_emojis))
    IN  SubSeq(sorted, 1, Min(n, Len(sorted)))

\* ---- groupby(...).size() and reindex ----
\* Number of records of the table whose key is k.
GroupCount(rows, Key(_), k) == Cardinality({i \in 1..Len(rows) : Key(rows[i]) = k})

\* The keys in ascending order of Ord (which tells the keys apart).
SortKeys(S, Ord(_)) ==
    [j \in 1..Cardinality(S) |->
        CHOOSE x \in S : Cardinality({z \in S : Ord(z) < Ord(x)}) = j - 1]

Count(n) == [nan |-> FALSE, n |-> n]
Missing == [nan |-> TRUE, n |-> 0]

\* groupby(key).size(): one entry per key present, keys sorted.
GroupSize(rows, Key(_), Ord(_)) ==
    LET keys == SortKeys({Key(rows[i]) : i \in 1..Len(rows)}, Ord)
    IN  [j \in 1..Len(keys) |-> [key |-> keys[j], value |-> Count(GroupCount(rows, Key, keys[j]))]]

\* Series.reindex(order): the labels of `order`, in that order; a label the
\* series lacks gets a missing value (NaN).
reindex(series, order) ==
    [j \in 1..Len(order) |->
        IF \E k \in 1..Len(series) : series[k].key = order[j]
        THEN series[CHOOSE k \in 1..Len(series) : series[k].key = order[j]]
        ELSE [key |-> order[j], value |-> Missing]]

KeyHour(r) == r.hour
KeyDay(r) == r.day_of_week
KeyMonth(r) == r.month
KeyDate(r) == r.message_date
Ident(x) == x
\* Strings are sorted alphabetically by groupby; reindex then reorders them,
\* so any fixed order of the names serves here.
NameOrd(x) ==
    IF \E k \in 1..7 : WeekDays[k] = x THEN CHOOSE k \in 1..7 : WeekDays[k] = x
    ELSE CHOOSE k \in 1..12 : MonthNames[k] = x

\* Lines 120, 128-132, 139-143.
hourly_series(rows) == GroupSize(rows, KeyHour, Ident)
daily_series(rows) == reindex(GroupSize(rows, KeyDay, NameOrd), WeekDays)
monthly_series(rows) == reindex(GroupSize(rows, KeyMonth, NameOrd), MonthNames)

\* Line 156: groupby('message_date').size().reset_index()
usage_series(rows) == GroupSize(rows, KeyDate, TsKey)

\* ---- main ----
NoStats == [done |-> FALSE, total |-> 0, unique |-> 0, with |-> 0,
            pct_num |-> 0, pct_den |-> 1]
NoTop == [done |-> FALSE, n |-> 0, pairs |-> <<>>]
NoPatterns == [done |-> FALSE, hourly |-> <<>>, daily |-> <<>>, monthly |-> <<>>]
NoUsage == [done |-> FALSE, points |-> <<>>]

\* The analyzer is not running (an execution of the aggregator).
OffA ==
    /\ csv = [defect |-> "none", rows |-> <<>>]
    /\ pcA = "off"
    /\ df = Unset
    /\ df_emojis = <<>>
    /\ df_emoji_count = <<>>
    /\ emoji_data = Unset
    /\ stats = NoStats
    /\ top_n = NoTop
    /\ time_patterns = NoPatterns
    /\ daily_counts = NoUsage
    /\ shown = <<>>
    /\ out = <<>>
    /\ error = NoError

\* After EmojiAnalyzer(file_path) (lines 13-18, 187).
InitAnalyzer ==
    /\ csv \in [defect : Defects, rows : SeqsUpTo(InputRows, MaxMessages)]
    /\ pcA = "load"
    /\ df = Unset
    /\ df_emojis = <<>>
    /\ df_emoji_count = <<>>
    /\ emoji_data = Unset
    /\ stats = NoStats
    /\ top_n = NoTop
    /\ time_patterns = NoPatterns
    /\ daily_counts = NoUsage
    /\ shown = <<>>
    /\ out = <<>>
    /\ error = NoError

\* Lines 204-207: main's handler prints and re-raises; the process ends.
Raise(e, printed) ==
    /\ error' = e
    /\ out' = out \o printed \o <<"Error during analysis">>
    /\ pcA' = "raised"

\* A load whose handler swallows the exception instead of re-raising it.
LoadData_Swallow ==
    /\ pcA = "load"
    /\ LET r == load_data_result(csv)
       IN  /\ df' = r.df
           /\ out' = out \o r.out
           /\ pcA' = "process"
    /\ UNCHANGED <<csv, df_emojis, df_emoji_count, emoji_data, stats, top_n,
                   time_patterns, daily_counts, shown, error>>
    /\ UNCHANGED varsC

\* Line 192: analyzer.load_data()
LoadData ==
    /\ pcA = "load"
    /\ LET r == load_data_result(csv)
       IN  /\ df' = r.df
           /\ IF r.err # NoError
              THEN Raise(r.err, r.out)
              ELSE /\ out' = out \o r.out
                   /\ pcA' = "process"
                   /\ UNCHANGED error
    /\ UNCHANGED <<csv, df_emojis, df_emoji_count, emoji_data, stats, top_n,
                   time_patterns, daily_counts, shown>>
    /\ UNCHANGED varsC

\* A processing step that stamps every record with the first row's timestamp.
ProcessEmojiData_FirstStamp ==
    /\ pcA = "process"
    /\ LET emojis == [i \in 1..Len(df.rows) |-> extract_emojis(df.rows[i].text)]
       IN  /\ df_emojis' = emojis
           /\ df_emoji_count' = [i \in 1..Len(emojis) |-> Len(emojis[i])]
           /\ emoji_data' = Table(Expand([i \in 1..Len(df.rows) |-> df.rows[1]], emojis))
    /\ out' = out \o <<"Found emoji uses">>
    /\ pcA' = "stats"
    /\ UNCHANGED <<csv, df, stats, top_n, time_patterns, daily_counts, shown, error>>
    /\ UNCHANGED varsC

\* Line 193: analyzer.process_emoji_data() (lines 58-78)
ProcessEmojiData ==
    /\ pcA = "process"
    /\ LET emojis == [i \in 1..Len(df.rows) |-> extract_emojis(df.rows[i].text)]
       IN  /\ df_emojis' = emojis
           /\ df_emoji_count' = [i \in 1..Len(emojis) |-> Len(emojis[i])]
           /\ emoji_data' = Table(Expand(df.rows, emojis))
    /\ out' = out \o <<"Found emoji uses">>
    /\ pcA' = "stats"
    /\ UNCHANGED <<csv, df, stats, top_n, time_patterns, daily_counts, shown, error>>
    /\ UNCHANGED varsC

\* Statistics that report 0% for an empty table instead of dividing.
BasicStats_Guarded ==
    /\ pcA = "stats"
    /\ stats' = [done |-> TRUE, total |-> total_emojis, unique |-> unique_emojis,
                 with |-> messages_with_emojis,
                 pct_num |-> messages_with_emojis * 100,
                 pct_den |-> IF Len(df.rows) = 0 THEN 1 ELSE Len(df.rows)]
    /\ out' = out \o <<"Emoji Usage Statistics", "Percentage of messages with emojis">>
    /\ pcA' = "top"
    /\ UNCHANGED <<csv, df, df_emojis, df_emoji_count, emoji_data, top_n,
                   time_patterns, daily_counts, shown, error>>
    /\ UNCHANGED varsC

\* Line 196: analyzer.basic_stats() (lines 80-90); the division of line 90
\* raises when the table has no rows, after the first lines were printed.
BasicStats ==
    /\ pcA = "stats"
    /\ IF Len(df.rows) = 0
       THEN /\ Raise("ZeroDivisionError", <<"Emoji Usage Statistics">>)
            /\ UNCHANGED stats
       ELSE /\ stats' = [done |-> TRUE, total |-> total_emojis, unique |-> unique_emojis,
                         with |-> messages_with_emojis,
                         pct_num |-> messages_with_emojis * 100,
                         pct_den |-> Len(df.rows)]
            /\ out' = out \o <<"Emoji Usage Statistics", "Percentage of messages with emojis">>
            /\ pcA' = "top"
            /\ UNCHANGED error
    /\ UNCHANGED <<csv, df, df_emojis, df_emoji_count, emoji_data, top_n,
                   time_patterns, daily_counts, shown>>
    /\ UNCHANGED varsC

\* Line 197: analyzer.plot_top_emojis() (lines 97-107); main passes the default
\* n, the method takes any n.
PlotTopEmojis ==
    /\ pcA = "top"
    /\ \E n \in (0..MaxTopN) \cup {DefaultTopN} :
          top_n' = [done |-> TRUE, n |-> n, pairs |-> top_emojis(n)]
    /\ shown' = Append(shown, "top_emojis")
    /\ pcA' = "time"
    /\ UNCHANGED <<csv, df, df_emojis, df_emoji_count, emoji_data, stats,
                   time_patterns, daily_counts, out, error>>
    /\ UNCHANGED varsC

\* Line 198: analyzer.plot_time_patterns() (lines 109-151); a table without
\* records has no 'hour' column to group by.
PlotTimePatterns ==
    /\ pcA = "time"
    /\ IF emoji_data.rows = <<>>
       THEN /\ Raise("KeyError", <<>>)
            /\ UNCHANGED <<time_patterns, shown>>
       ELSE /\ time_patterns' = [done |-> TRUE,
                                 hourly |-> hourly_series(emoji_data.rows),
                                 daily |-> daily_series(emoji_data.rows),
                                 monthly |-> monthly_series(emoji_data.rows)]
            /\ shown' = Append(shown, "time_patterns")
            /\ pcA' = "usage"
            /\ UNCHANGED <<out, error>>
    /\ UNCHANGED <<csv, df, df_emojis, df_emoji_count, emoji_data, stats, top_n,
                   daily_counts>>
    /\ UNCHANGED varsC

\* Line 199: analyzer.plot_usage_over_time() (lines 153-164)
PlotUsageOverTime ==
    /\ pcA = "usage"
    /\ daily_counts' = [done |-> TRUE, points |-> usage_series(emoji_data.rows)]
    /\ shown' = Append(shown, "usage_over_time")
    /\ pcA' = "categories"
    /\ UNCHANGED <<csv, df, df_emojis, df_emoji_count, emoji_data, stats, top_n,
                   time_patterns, out, error>>
    /\ UNCHANGED varsC

\* Lines 200-202: analyzer.analyze_categories() (lines 166-180), then the
\* closing message.
AnalyzeCategories ==
    /\ pcA = "categories"
    /\ shown' = Append(shown, "categories")
    /\ out' = Append(out, "Analysis complete")
    /\ pcA' = "complete"
    /\ UNCHANGED <<csv, df, df_emojis, df_emoji_count, emoji_data, stats, top_n,
                   time_patterns, daily_counts, error>>
    /\ UNCHANGED varsC

NextA ==
    \/ LoadData
    \/ ProcessEmojiData
    \/ BasicStats
    \/ PlotTopEmojis
    \/ PlotTimePatterns
    \/ PlotUsageOverTime
    \/ AnalyzeCategories

\* =========================================================================
\* specifications
\* =========================================================================
InitC == InitAggregator /\ OffA
InitA == InitAnalyzer /\ OffC

\* One execution of either script.
Init == InitC \/ InitA
Next == NextC \/ NextA
Spec == Init /\ [][Next]_vars

\* Executions of combine_imessages.py alone, and of emoji_wrapped.py alone.
SpecCombine == InitC /\ [][NextC]_vars
SpecAnalyzer == InitA /\ [][NextA]_vars

\* ------------------------------------------------ aggregator: properties
Range(s) == {s[k] : k \in 1..Len(s)}

\* Positions of the listing whose file parsed.
Succeeded == {k \in 1..Len(listing) : listing[k].parses}
Failed == {k \in 1..Len(listing) : ~listing[k].parses}

RowsOf(K) == SumSeq([k \in 1..Len(listing) |-> IF k \in K THEN listing[k].nrows ELSE 0])

\* Name of the immediate parent directory of the file a row was read from.
ParentOf(src) == IF src = 0 THEN RootName ELSE files[src].parent

\* Rows held by the source files that parse (the artifact not counted).
SourceRowTotal ==
    SumSeq([i \in 1..Len(files) |-> IF files[i].parses THEN files[i].nrows ELSE 0])

\* C1: once a run has finished, every discovered file has been visited (a
\* failing file did not stop the loop); if at least one file parsed, the
\* artifact was written and holds exactly the rows of the files that parsed;
\* if none parsed (nothing found, or all failed), nothing was written.
C1_FailedFilesSkipped ==
    pcC = "done" =>
        /\ idx = Len(listing) + 1
        /\ processed_files = Cardinality(Succeeded)
        /\ Succeeded # {} =>
              /\ wrote
              /\ artifact.exists
              /\ Len(combined_df) = RowsOf(Succeeded)
              /\ Len(artifact.cells) = RowsOf(Succeeded)
        /\ Succeeded = {} =>
              /\ ~wrote
              /\ ~artifact.exists

\* C1 witness: a run finished in which a failing file came before a file that
\* parsed with rows.
C1_Witness ==
    /\ pcC = "done"
    /\ wrote
    /\ \E i \in Failed : \E j \in Succeeded : i < j /\ listing[j].nrows > 0
    /\ Len(artifact.cells) > 0

\* C2 (as stated, for input files that each hold at least one row): with N
\* valid input files the provenance column has exactly N distinct values, and
\* every row carries the parent directory name of the file it came from.
C2_ExactlyNDistinct ==
    (pcC = "done" /\ wrote /\ Failed = {}
       /\ \A k \in 1..Len(listing) : listing[k].nrows > 0) =>
        /\ Cardinality({r.cid : r \in Range(combined_df)}) = Len(listing)
        /\ \A r \in Range(combined_df) : r.cid = ParentOf(r.src)

\* C2 (amended): every row carries the parent directory name of the file it
\* came from, whatever conversation_id the file held; the distinct values of
\* the column are exactly the parent directory names of the parsed files that
\* hold at least one row, hence at most one per parsed file.
C2_ProvenanceIsParentName ==
    (pcC = "done" /\ wrote) =>
        /\ \A r \in Range(combined_df) : r.cid = ParentOf(r.src)
        /\ {r.cid : r \in Range(combined_df)}
              = {listing[k].parent : k \in {j \in Succeeded : listing[j].nrows > 0}}
        /\ Cardinality({r.cid : r \in Range(combined_df)}) <= Cardinality(Succeeded)
        /\ Range(artifact.cells) = {r.cid : r \in Range(combined_df)}

\* C2 witness: all files valid, two of them with rows in the same parent
\* directory, one already holding a conversation_id column.
C2_Witness ==
    /\ pcC = "done" /\ wrote /\ Failed = {}
    /\ \E i, j \in Succeeded :
          /\ i < j
          /\ listing[i].id # 0 /\ listing[j].id # 0
          /\ listing[i].parent = listing[j].parent
          /\ listing[i].nrows > 0 /\ listing[j].nrows > 0
          /\ files[listing[i].id].hasCid
    /\ Cardinality({r.cid : r \in Range(combined_df)}) < Len(listing)

\* C10: the artifact left by the k-th consecutive run holds k times the rows
\* of the (unchanged) source files, the first run exactly those rows; from the
\* second run on the previous artifact is one of the discovered files.
C10_RowsGrowPerRun ==
    /\ artifact.exists => Len(artifact.cells) = runs * SourceRowTotal
    /\ (pcC = "done" /\ runs = 1) => \A k \in 1..Len(listing) : listing[k].id # 0
    /\ (pcC = "done" /\ runs >= 2 /\ artifact.exists) =>
          /\ total_files = Len(files) + 1
          /\ \E k \in 1..Len(listing) : listing[k].id = 0

\* C10 witness: a second run finished over sources that hold rows, having
\* read the first run's artifact.
C10_Witness ==
    /\ pcC = "done"
    /\ runs = 2
    /\ SourceRowTotal > 0
    /\ \E k \in 1..Len(listing) : listing[k].id = 0 /\ listing[k].nrows = SourceRowTotal

\* -------------------------------------------------- analyzer: properties
Printed(msg) == \E k \in 1..Len(out) : out[k] = msg

\* load_data returned normally / re-raised.
LoadSucceeded == Printed("Found outgoing messages")
LoadFailed == Printed("Error loading CSV file")

\* The two predicates of the filter, read off an input row.
InTargetYear(r) == ~r.ts.nat /\ r.ts.y = 2024
IsOutgoing(r) == r.type = "Outgoing"
Retained(r) == InTargetYear(r) /\ IsOutgoing(r)

\* C3: after load_data succeeds the table holds exactly the input rows that
\* are of year 2024 and of Type 'Outgoing', in input order, each once; rows of
\* another year, of another or missing Type, or without timestamp are absent.
C3_FilterKeepsExactly2024Outgoing ==
    LoadSucceeded =>
        /\ df.set
        /\ df.rows = SelectSeq(csv.rows, Retained)
        /\ \A k \in 1..Len(df.rows) :
              /\ df.rows[k].ts.y = 2024
              /\ df.rows[k].type = "Outgoing"
              /\ df.rows[k].ts # NaT
        /\ Len(df.rows)
             = Cardinality({i \in 1..Len(csv.rows) :
                              InTargetYear(csv.rows[i]) /\ IsOutgoing(csv.rows[i])})

\* C3 witness: a load that dropped a 2024 row that is not outgoing and kept
\* the outgoing 2024 row that follows it.
C3_Witness ==
    /\ LoadSucceeded
    /\ Len(csv.rows) = 2
    /\ InTargetYear(csv.rows[1]) /\ ~IsOutgoing(csv.rows[1])
    /\ Retained(csv.rows[2])
    /\ df.rows = <<csv.rows[2]>>

IsEmoji(c) == c \in {"A", "B"}
\* Number of records the rows before row i contribute.
Offset(i) == SumSeq(SubSeq(df_emoji_count, 1, i - 1))

\* C4: after process_emoji_data the occurrence table has one record per
\* (row, matched character): each row's emojis are the characters of its text
\* that are emojis, in order (none when the text is missing); the table's
\* length is the sum of emoji_count; the records of row i are consecutive, in
\* order of appearance, and carry row i's timestamp.
C4_OneRecordPerEmoji ==
    emoji_data.set =>
        /\ Len(df_emojis) = Len(df.rows)
        /\ Len(df_emoji_count) = Len(df.rows)
        /\ \A i \in 1..Len(df.rows) :
              /\ df_emojis[i] = IF df.rows[i].text.isStr
                                THEN SelectSeq(df.rows[i].text.chars, IsEmoji)
                                ELSE <<>>
              /\ df_emoji_count[i] = Len(df_emojis[i])
              /\ \A p \in 1..df_emoji_count[i] :
                    /\ emoji_data.rows[Offset(i) + p].emoji = df_emojis[i][p]
                    /\ emoji_data.rows[Offset(i) + p].message_date = df.rows[i].ts
        /\ Len(emoji_data.rows) = SumSeq(df_emoji_count)
        /\ \A j \in 1..Len(emoji_data.rows) :
              \E i \in 1..Len(df.rows) : emoji_data.rows[j].message_date = df.rows[i].ts

\* C4 witness: a row without text and a row with two emojis among other
\* characters were processed, at different timestamps.
C4_Witness ==
    /\ emoji_data.set
    /\ Len(df.rows) = 2
    /\ df.rows[1].text = Str(<<"B", "h", "A">>)
    /\ ~df.rows[2].text.isStr
    /\ df.rows[1].ts # df.rows[2].ts
    /\ Len(emoji_data.rows) = 2

\* Occurrences of e among the emojis of all retained rows, and the position of
\* its first occurrence in row-iteration order.
Occurrences(e) == Cardinality({k \in 1..Len(all_emojis) : all_emojis[k] = e})
FirstSeen(e) == CHOOSE k \in 1..Len(all_emojis) :
                    all_emojis[k] = e /\ \A j \in 1..(k - 1) : all_emojis[j] # e
DistinctEmojis == {all_emojis[k] : k \in 1..Len(all_emojis)}

\* C5: top_emojis(n) returns min(n, number of distinct emojis) pairs, each an
\* emoji with its total number of occurrences, no emoji twice, counts
\* non-increasing, no omitted emoji more frequent than a returned one, and
\* equal counts in order of first occurrence.
C5_TopEmojis ==
    top_n.done =>
        LET pairs == top_n.pairs
            got == {pairs[k][1] : k \in 1..Len(pairs)}
        IN  /\ Len(pairs) = IF top_n.n <= Cardinality(DistinctEmojis)
                            THEN top_n.n ELSE Cardinality(DistinctEmojis)
            /\ Cardinality(got) = Len(pairs)
            /\ \A k \in 1..Len(pairs) :
                  /\ pairs[k][1] \in DistinctEmojis
                  /\ pairs[k][2] = Occurrences(pairs[k][1])
            /\ \A k, l \in 1..Len(pairs) :
                  k < l =>
                     /\ pairs[k][2] >= pairs[l][2]
                     /\ pairs[k][2] = pairs[l][2] =>
                           FirstSeen(pairs[k][1]) < FirstSeen(pairs[l][1])
            /\ \A e \in DistinctEmojis \ got :
                  \A k \in 1..Len(pairs) : Occurrences(e) <= pairs[k][2]

\* C5 witness: two emojis with equal counts, the one met first reported first.
C5_Witness ==
    /\ top_n.done
    /\ top_n.n = 2
    /\ all_emojis = <<"B", "A">>
    /\ top_n.pairs = <<(<<"B", 1>>), (<<"A", 1>>)>>

Keys(series) == [k \in 1..Len(series) |-> series[k].key]
Hours == [k \in 1..24 |-> k - 1]

\* C6 (as stated): each time-bucketed aggregate of plot_time_patterns lists
\* every bucket of its domain in fixed order (hours 0-23, Monday-Sunday,
\* January-December), and a bucket without occurrences has count zero, never
\* a missing value.
C6_AllBucketsListedWithZero ==
    time_patterns.done =>
        /\ Keys(time_patterns.hourly) = Hours
        /\ Keys(time_patterns.daily) = WeekDays
        /\ Keys(time_patterns.monthly) = MonthNames
        /\ \A k \in 1..Len(time_patterns.hourly) :
              /\ ~time_patterns.hourly[k].value.nan
              /\ time_patterns.hourly[k].value.n
                   = Cardinality({j \in 1..Len(emoji_data.rows) :
                                    emoji_data.rows[j].hour = time_patterns.hourly[k].key})
        /\ \A k \in 1..Len(time_patterns.daily) :
              /\ ~time_patterns.daily[k].value.nan
              /\ time_patterns.daily[k].value.n
                   = Cardinality({j \in 1..Len(emoji_data.rows) :
                                    emoji_data.rows[j].day_of_week = time_patterns.daily[k].key})
        /\ \A k \in 1..Len(time_patterns.monthly) :
              /\ ~time_patterns.monthly[k].value.nan
              /\ time_patterns.monthly[k].value.n
                   = Cardinality({j \in 1..Len(emoji_data.rows) :
                                    emoji_data.rows[j].month = time_patterns.monthly[k].key})

CalendarDay(t) == <<t.y, t.mo, t.d>>
DaysPresent == {CalendarDay(emoji_data.rows[j].message_date) : j \in 1..Len(emoji_data.rows)}

\* C7 (as stated): the usage-over-time series has one point per calendar day
\* present in the occurrence table, whose value is the number of occurrences
\* on that day.
C7_OnePointPerCalendarDay ==
    daily_counts.done =>
        /\ Len(daily_counts.points) = Cardinality(DaysPresent)
        /\ \A k \in 1..Len(daily_counts.points) :
              daily_counts.points[k].value.n
                = Cardinality({j \in 1..Len(emoji_data.rows) :
                                 CalendarDay(emoji_data.rows[j].message_date)
                                   = CalendarDay(daily_counts.points[k].key)})

\* C8: a header without 'Message Date' or 'Text' makes load_data fail with a
\* ValueError before the full table is read, the table left unset; every load
\* error (those, a missing 'Type' column, an unreadable file, dates that do
\* not parse) is logged and re-raised, and no later stage runs.
C8_LoadErrorsAreFatal ==
    /\ (pcA \notin {"off", "load"}
          /\ csv.defect \in {"no_date_column", "no_text_column", "no_date_no_text"}) =>
          /\ error = "ValueError"
          /\ ~df.set
          /\ ~Printed("Reading CSV file")
          /\ Printed("Available columns")
    /\ (pcA \notin {"off", "load"} /\ csv.defect # "none") =>
          /\ LoadFailed
          /\ error # NoError
    /\ LoadFailed =>
          /\ pcA = "raised"
          /\ error # NoError
          /\ out[Len(out)] = "Error during analysis"
          /\ ~emoji_data.set
          /\ df_emojis = <<>> /\ df_emoji_count = <<>>
          /\ ~stats.done /\ ~top_n.done /\ ~time_patterns.done /\ ~daily_counts.done
          /\ shown = <<>>

\* C8 witness: a file with rows but no 'Type' column was loaded: the error
\* surfaced after the full read.
C8_Witness ==
    /\ pcA = "raised"
    /\ csv.defect = "no_type_column"
    /\ Len(csv.rows) > 0
    /\ error = "KeyError"
    /\ df.set

\* C9: when the load succeeds and retains no row, extraction and expansion
\* complete with zero records, the statistics stage is the one that fails,
\* with a division by zero, and no view is shown; when at least one row is
\* retained, the statistics complete with a percentage within 0..100.
C9_EmptyTableFailsInStatistics ==
    /\ (LoadSucceeded /\ Len(df.rows) = 0) =>
          /\ pcA \in {"process", "stats", "raised"}
          /\ pcA # "process" => emoji_data.set /\ emoji_data.rows = <<>>
          /\ pcA = "raised" => error = "ZeroDivisionError"
          /\ ~stats.done
          /\ shown = <<>>
    /\ (LoadSucceeded /\ Len(df.rows) > 0 /\ pcA \notin {"process", "stats"}) =>
          /\ stats.done
          /\ error # "ZeroDivisionError"
          /\ 0 <= stats.pct_num
          /\ stats.pct_num <= 100 * stats.pct_den
          /\ stats.pct_den = Len(df.rows)
          /\ stats.with <= Len(df.rows)

\* C9 witness: a file with rows, none retained, ended in the division error
\* after the occurrence table was built.
C9_Witness ==
    /\ pcA = "raised"
    /\ error = "ZeroDivisionError"
    /\ Len(csv.rows) > 0
    /\ emoji_data.set
    /\ Printed("Emoji Usage Statistics")

====
